---- MODULE Spec2Model ----
(***************************************************************************)
(* Batch orchestration and report aggregation of the radiology diagnostic  *)
(* pipeline: POST /api/diagnose (the batch loop), DiagnosticAI.processBatch *)
(* (one inference call with its abort timer), DiagnosticAI.compileFinalReport *)
(* and FileProcessor.createBatches.                                        *)
(***************************************************************************)
EXTENDS Integers, Sequences, FiniteSets, TLC

\* Largest image list of a request (41 images make three batches of 20, 20, 1).
MaxImages == 41

\* FileProcessor.createBatches(images, 20)
BatchSize == 20

-----------------------------------------------------------------------------
(* JavaScript values.  Every value is a record whose field name is its type  *)
(* tag, so that values of different types can be compared.                  *)

Absent == [absent |-> TRUE]
JNull == [null |-> TRUE]
Num(n) == [num |-> n]
Str(s) == [str |-> s]
Arr(a) == [arr |-> a]
Date(t) == [date |-> t]

\* ToBoolean: undefined, null, 0 and "" are falsy, everything else is truthy.
Truthy(v) == v # Absent /\ v # JNull /\ v # Num(0) /\ v # Str("")

\* v || d
OrElse(v, d) == IF Truthy(v) THEN v ELSE d

\* Array.isArray(v)
IsArray(v) == "arr" \in DOMAIN v

Min(a, b) == IF a < b THEN a ELSE b

\* Math.round(a / b) for a >= 0, b > 0: halves round up.
RoundDiv(a, b) == (2 * a + b) \div (2 * b)

\* Mutant of Slice: the end index is taken as inclusive.
Slice_Inclusive(s, from, to) == SubSeq(s, from + 1, Min(to + 1, Len(s)))

\* Array.prototype.slice(from, to) with 0-based, end-exclusive indices.
Slice(s, from, to) == SubSeq(s, from + 1, Min(to, Len(s)))

\* Mutant of Unique: nothing is removed.
Unique_KeepAll(xs) == xs

\* [...new Set(xs)]: first occurrences, in order.
RECURSIVE Unique(_)
Unique(xs) ==
  IF xs = <<>> THEN <<>>
  ELSE LET front == Unique(SubSeq(xs, 1, Len(xs) - 1))
           last == xs[Len(xs)]
       IN IF \E k \in DOMAIN front : front[k] = last THEN front
          ELSE Append(front, last)

\* parts.join(sep), the text kept as the sequence of its pieces.
RECURSIVE Join(_, _)
Join(parts, sep) ==
  IF parts = <<>> THEN <<>>
  ELSE IF Len(parts) = 1 THEN <<parts[1]>>
  ELSE <<parts[1], sep>> \o Join(Tail(parts), sep)

-----------------------------------------------------------------------------
(* The model's reply texts.  A text is what surrounds a JSON document       *)
(* (prose or nothing) and the document itself (Absent: the text holds none). *)

F_critical ==
  [description |-> Str("mass"), severity |-> Str("critical"),
   location |-> Str("left lung"), confidence |-> Num(85)]
F_low ==
  [description |-> Str("nodule"), severity |-> Str("low"),
   location |-> Absent, confidence |-> Num(60)]
F_bare ==
  [description |-> Absent, severity |-> Absent,
   location |-> Absent, confidence |-> Absent]
F_zero ==
  [description |-> Str("cyst"), severity |-> Str("moderate"),
   location |-> Str("liver"), confidence |-> Num(0)]

\* Values outside the declared schema: a severity that is no member of the
\* enumeration, a confidence above 100.
F_severe ==
  [description |-> Str("opacity"), severity |-> Str("severe"),
   location |-> Str("right lung"), confidence |-> Num(70)]
F_over ==
  [description |-> Str("lesion"), severity |-> Str("high"),
   location |-> Absent, confidence |-> Num(150)]

P_full ==
  [summary |-> Str("two findings"),
   findings |-> Arr(<<F_critical, F_low>>),
   recommendations |-> Arr(<<Str("Follow-up CT recommended")>>),
   confidence |-> Num(80)]
P_second ==
  [summary |-> Absent,
   findings |-> Arr(<<F_bare>>),
   recommendations |-> Arr(<<Str("Follow-up CT recommended"), Str("Biopsy")>>),
   confidence |-> Num(90)]
P_nullEntry ==
  [summary |-> Str("partly readable"),
   findings |-> Arr(<<F_low, JNull, F_critical>>),
   recommendations |-> Arr(<<Str("MRI")>>),
   confidence |-> Num(70)]
P_empty ==
  [summary |-> Absent, findings |-> Absent,
   recommendations |-> Absent, confidence |-> Absent]
P_zero ==
  [summary |-> Str("unsure"),
   findings |-> Arr(<<F_zero>>),
   recommendations |-> Arr(<<Str("Biopsy")>>),
   confidence |-> Num(0)]

P_offSchema ==
  [summary |-> Absent,
   findings |-> Arr(<<F_severe, F_over>>),
   recommendations |-> Arr(<<Str("MRI")>>),
   confidence |-> Num(150)]

Payloads == {P_full, P_second, P_nullEntry, P_empty, P_zero, P_offSchema}

Plain(doc) == [prose |-> FALSE, doc |-> doc]
InProse(doc) == [prose |-> TRUE, doc |-> doc]

\* What choices[0].message.content can be: a bare JSON document, a document
\* inside prose, prose alone, or no content field at all.
Replies ==
  {Plain(p) : p \in Payloads} \cup {InProse(P_full), InProse(Absent), Absent}

\* JSON.parse(text): succeeds only when the whole text is one JSON document.
JSONparse(text) ==
  IF text.prose \/ text.doc = Absent
  THEN [ok |-> FALSE, value |-> Absent]
  ELSE [ok |-> TRUE, value |-> text.doc]

-----------------------------------------------------------------------------
(* FileProcessor.createBatches                                             *)

RECURSIVE createBatchesFrom(_, _, _)
createBatchesFrom(images, batchSize, i) ==
  IF i < Len(images)
  THEN <<Slice(images, i, i + batchSize)>>
         \o createBatchesFrom(images, batchSize, i + batchSize)
  ELSE <<>>

createBatches(images, batchSize) == createBatchesFrom(images, batchSize, 0)

-----------------------------------------------------------------------------
(* DiagnosticAI.compileFinalReport                                         *)

\* Mutant of MakeFinding: only the first image of the batch is related.
MakeFinding_FirstImageOnly(finding, index, ordinal, batch) ==
  [id |-> <<"finding", index, ordinal>>,
   description |-> OrElse(finding.description, Str("No description provided")),
   severity |-> OrElse(finding.severity, Str("moderate")),
   location |-> OrElse(finding.location, Str("Not specified")),
   confidence |-> OrElse(finding.confidence, Num(50)),
   relatedImages |-> <<batch.images[1].id>>]

\* Mutant of MakeFinding: the identifier is built from the batch index alone.
MakeFinding_IndexOnly(finding, index, ordinal, batch) ==
  [id |-> <<"finding", index, 0>>,
   description |-> OrElse(finding.description, Str("No description provided")),
   severity |-> OrElse(finding.severity, Str("moderate")),
   location |-> OrElse(finding.location, Str("Not specified")),
   confidence |-> OrElse(finding.confidence, Num(50)),
   relatedImages |-> [k \in 1..Len(batch.images) |-> batch.images[k].id]]

MakeFinding(finding, index, ordinal, batch) ==
  [id |-> <<"finding", index, ordinal>>,
   description |-> OrElse(finding.description, Str("No description provided")),
   severity |-> OrElse(finding.severity, Str("moderate")),
   location |-> OrElse(finding.location, Str("Not specified")),
   confidence |-> OrElse(finding.confidence, Num(50)),
   relatedImages |-> [k \in 1..Len(batch.images) |-> batch.images[k].id]]

\* Mutant of CollectFindings: a finding is put in front of the list.
RECURSIVE CollectFindings_Unshift(_, _, _, _)
CollectFindings_Unshift(allFindings, entries, index, batch) ==
  IF entries = <<>> THEN [all |-> allFindings, threw |-> FALSE]
  ELSE IF Head(entries) = JNull THEN [all |-> allFindings, threw |-> TRUE]
  ELSE CollectFindings_Unshift(
         <<MakeFinding(Head(entries), index, Len(allFindings), batch)>>
           \o allFindings,
         Tail(entries), index, batch)

\* batchData.findings.forEach(...): pushes one finding per entry; reading a
\* field of a null entry throws, which leaves the findings pushed so far.
RECURSIVE CollectFindings(_, _, _, _)
CollectFindings(allFindings, entries, index, batch) ==
  IF entries = <<>> THEN [all |-> allFindings, threw |-> FALSE]
  ELSE IF Head(entries) = JNull THEN [all |-> allFindings, threw |-> TRUE]
  ELSE CollectFindings(
         Append(allFindings,
                MakeFinding(Head(entries), index, Len(allFindings), batch)),
         Tail(entries), index, batch)

\* Mutant of AggregateBatch: the status of the batch is not looked at.
AggregateBatch_AnyStatus(acc, batch, index) ==
  IF Truthy(batch.result)
  THEN LET parsed == JSONparse(batch.result)
           batchData == parsed.value
           collected ==
             IF Truthy(batchData.findings) /\ IsArray(batchData.findings)
             THEN CollectFindings(acc.allFindings, batchData.findings.arr,
                                  index, batch)
             ELSE [all |-> acc.allFindings, threw |-> FALSE]
       IN IF ~parsed.ok THEN acc
          ELSE IF collected.threw
          THEN [acc EXCEPT !.allFindings = collected.all]
          ELSE [allFindings |-> collected.all,
                allRecommendations |->
                  IF Truthy(batchData.recommendations)
                     /\ IsArray(batchData.recommendations)
                  THEN acc.allRecommendations \o batchData.recommendations.arr
                  ELSE acc.allRecommendations,
                summaries |->
                  IF Truthy(batchData.summary)
                  THEN Append(acc.summaries,
                              <<"Batch", index + 1, batchData.summary>>)
                  ELSE acc.summaries,
                totalConfidence |->
                  IF Truthy(batchData.confidence)
                  THEN acc.totalConfidence + batchData.confidence.num
                  ELSE acc.totalConfidence,
                validBatches |->
                  IF Truthy(batchData.confidence)
                  THEN acc.validBatches + 1
                  ELSE acc.validBatches]
  ELSE acc

\* The body of batches.forEach((batch, index) => ...), index 0-based.
AggregateBatch(acc, batch, index) ==
  IF batch.status = "completed" /\ Truthy(batch.result)
  THEN LET parsed == JSONparse(batch.result)
           batchData == parsed.value
           collected ==
             IF Truthy(batchData.findings) /\ IsArray(batchData.findings)
             THEN CollectFindings(acc.allFindings, batchData.findings.arr,
                                  index, batch)
             ELSE [all |-> acc.allFindings, threw |-> FALSE]
       IN IF ~parsed.ok THEN acc
          ELSE IF collected.threw
          THEN [acc EXCEPT !.allFindings = collected.all]
          ELSE [allFindings |-> collected.all,
                allRecommendations |->
                  IF Truthy(batchData.recommendations)
                     /\ IsArray(batchData.recommendations)
                  THEN acc.allRecommendations \o batchData.recommendations.arr
                  ELSE acc.allRecommendations,
                summaries |->
                  IF Truthy(batchData.summary)
                  THEN Append(acc.summaries,
                              <<"Batch", index + 1, batchData.summary>>)
                  ELSE acc.summaries,
                totalConfidence |->
                  IF Truthy(batchData.confidence)
                  THEN acc.totalConfidence + batchData.confidence.num
                  ELSE acc.totalConfidence,
                validBatches |->
                  IF Truthy(batchData.confidence)
                  THEN acc.validBatches + 1
                  ELSE acc.validBatches]
  ELSE acc

RECURSIVE AggregateUpTo(_, _)
AggregateUpTo(batches, n) ==
  IF n = 0
  THEN [allFindings |-> <<>>, allRecommendations |-> <<>>, summaries |-> <<>>,
        totalConfidence |-> 0, validBatches |-> 0]
  ELSE AggregateBatch(AggregateUpTo(batches, n - 1), batches[n], n - 1)

CountSeverity(findings, severity) ==
  Cardinality({k \in DOMAIN findings : findings[k].severity = Str(severity)})

\* Mutant of generateComprehensiveSummary: the low-severity sentence comes
\* first.
generateComprehensiveSummary_LowFirst(summaries, findings, imageCount, batchCount) ==
  LET sentence(severity) ==
        IF CountSeverity(findings, severity) > 0
        THEN <<[sentence |-> "count", severity |-> severity,
                count |-> CountSeverity(findings, severity)]>>
        ELSE <<>>
  IN <<[sentence |-> "analysis", images |-> imageCount, batches |-> batchCount]>>
       \o sentence("low") \o sentence("critical")
       \o sentence("high") \o sentence("moderate")
       \o (IF Len(findings) = 0
           THEN <<[sentence |-> "no abnormalities"]>> ELSE <<>>)
       \o <<[sentence |-> "closing"]>>

\* The summary text, kept as the sequence of its sentences: the opening
\* sentence with the two counts, one sentence per severity that has
\* findings, the sentence about no abnormalities, the closing sentence.
generateComprehensiveSummary(summaries, findings, imageCount, batchCount) ==
  LET sentence(severity) ==
        IF CountSeverity(findings, severity) > 0
        THEN <<[sentence |-> "count", severity |-> severity,
                count |-> CountSeverity(findings, severity)]>>
        ELSE <<>>
  IN <<[sentence |-> "analysis", images |-> imageCount, batches |-> batchCount]>>
       \o sentence("critical") \o sentence("high")
       \o sentence("moderate") \o sentence("low")
       \o (IF Len(findings) = 0
           THEN <<[sentence |-> "no abnormalities"]>> ELSE <<>>)
       \o <<[sentence |-> "closing"]>>

\* Mutant of SumImages: only completed batches are counted.
RECURSIVE SumImages_CompletedOnly(_)
SumImages_CompletedOnly(batches) ==
  IF batches = <<>> THEN 0
  ELSE (IF Head(batches).status = "completed"
        THEN Len(Head(batches).images) ELSE 0)
         + SumImages_CompletedOnly(Tail(batches))

RECURSIVE SumImages(_)
SumImages(batches) ==
  IF batches = <<>> THEN 0
  ELSE Len(Head(batches).images) + SumImages(Tail(batches))

\* clock is the value of new Date() at the call.
compileFinalReport(sessionId, batches, patientId, clock) ==
  LET acc == AggregateUpTo(batches, Len(batches))
      totalImages == SumImages(batches)
      averageConfidence ==
        IF acc.validBatches > 0
        THEN RoundDiv(acc.totalConfidence, acc.validBatches)
        ELSE 0
      processingStartTime ==
        IF batches # <<>> THEN OrElse(batches[1].processedAt, Date(clock))
        ELSE Date(clock)
      processingEndTime ==
        IF batches # <<>>
        THEN OrElse(batches[Len(batches)].processedAt, Date(clock))
        ELSE Date(clock)
  IN [id |-> <<"report", sessionId>>,
      sessionId |-> sessionId,
      patientId |-> patientId,
      summary |-> generateComprehensiveSummary(acc.summaries, acc.allFindings,
                                               totalImages, Len(batches)),
      findings |-> acc.allFindings,
      recommendations |-> Unique(acc.allRecommendations),
      confidence |-> averageConfidence,
      processingTime |-> processingEndTime.date - processingStartTime.date,
      imageCount |-> totalImages,
      generatedAt |-> Date(clock)]

-----------------------------------------------------------------------------
(* DiagnosticAI.processBatch: what one call returns                         *)

Failure(reason) == [success |-> FALSE, result |-> Absent, error |-> Str(reason)]
Success(content) == [success |-> TRUE, result |-> content, error |-> Absent]

\* What the body of a response can hold: text that is not JSON, JSON without
\* choices[0].message, or JSON whose message carries a reply.
NotJsonBody == [parses |-> FALSE, hasMessage |-> FALSE, content |-> Absent]
NoMessageBody == [parses |-> TRUE, hasMessage |-> FALSE, content |-> Absent]
Bodies ==
  {NotJsonBody, NoMessageBody}
    \cup {[parses |-> TRUE, hasMessage |-> TRUE, content |-> r] : r \in Replies}

\* Mutant of ReadBody: the structure check is missing.
ReadBody_NoStructureCheck(ok, body) ==
  IF ~ok THEN Failure("API request failed")
  ELSE IF ~body.parses THEN Failure("Unexpected token in JSON")
  ELSE Success(body.content)

\* After fetch resolved: the non-OK branch, response.json(), the structure
\* check and the return of the content.
ReadBody(ok, body) ==
  IF ~ok THEN Failure("API request failed")
  ELSE IF ~body.parses THEN Failure("Unexpected token in JSON")
  ELSE IF ~body.hasMessage THEN Failure("Invalid API response structure")
  ELSE Success(body.content)

\* One finished exchange with the service: a network error, an abort, or a
\* response with its status (ok) and body.
Exchange(event, ok, body) == [event |-> event, ok |-> ok, body |-> body]

\* Whether the abort timer is still pending once fetch has resolved:
\* clearTimeout(timeoutId) runs before the body is read.
TimerAfterHeaders == FALSE

-----------------------------------------------------------------------------
(* POST /api/diagnose                                                      *)

Images(n) == [k \in 1..n |-> [id |-> k]]

Requests ==
  {[sessionId |-> Str("s1"), images |-> Arr(Images(n)), patientId |-> Absent] :
     n \in 0..MaxImages}
    \cup {[sessionId |-> Absent, images |-> Arr(Images(1)), patientId |-> Absent],
          [sessionId |-> Str("s1"), images |-> Absent, patientId |-> Absent],
          [sessionId |-> Str("s1"), images |-> Str("img"), patientId |-> Absent]}

\* Mutant of InputError: the check for an empty image list is missing.
InputError_NoEmptyCheck(req) ==
  IF ~Truthy(req.sessionId) \/ ~Truthy(req.images) \/ ~IsArray(req.images)
  THEN Str("Missing required fields: sessionId and images array")
  ELSE Absent

\* The two input checks; Absent when the request passes both.
InputError(req) ==
  IF ~Truthy(req.sessionId) \/ ~Truthy(req.images) \/ ~IsArray(req.images)
  THEN Str("Missing required fields: sessionId and images array")
  ELSE IF Len(req.images.arr) = 0
  THEN Str("No images provided for processing")
  ELSE Absent

InitBatch(sessionId, batchImages, index, total) ==
  [id |-> <<"batch", sessionId, index>>,
   images |-> batchImages,
   status |-> "pending",
   batchNumber |-> index + 1,
   totalBatches |-> total,
   processedAt |-> Absent,
   result |-> Absent,
   error |-> Absent]

InitBatches(sessionId, imageBatches) ==
  [k \in 1..Len(imageBatches) |->
     InitBatch(sessionId, imageBatches[k], k - 1, Len(imageBatches))]

\* Mutant of BatchAt: the loop walks the batches from the last to the first.
BatchAt_Descending(i, n) == n - i

\* const batch = batches[i], as a 1-based position in the sequence.
BatchAt(i, n) == i + 1

\* Mutant of SettleBatch: a failed batch is put back to pending.
SettleBatch_Requeue(batch, result, clock) ==
  IF result.success
  THEN [batch EXCEPT !.status = "completed", !.result = result.result,
                     !.processedAt = Date(clock)]
  ELSE [batch EXCEPT !.status = "pending", !.error = result.error]

\* Mutant of SettleBatch: the failure branch stores the reason but forgets
\* the status.
SettleBatch_ErrorKeepsStatus(batch, result, clock) ==
  IF result.success
  THEN [batch EXCEPT !.status = "completed", !.result = result.result,
                     !.processedAt = Date(clock)]
  ELSE [batch EXCEPT !.error = result.error]

\* Mutant of SettleBatch: the failure branch does not store the reason.
SettleBatch_DropsReason(batch, result, clock) ==
  IF result.success
  THEN [batch EXCEPT !.status = "completed", !.result = result.result,
                     !.processedAt = Date(clock)]
  ELSE [batch EXCEPT !.status = "error"]

\* The orchestrator's handling of what processBatch returned.
SettleBatch(batch, result, clock) ==
  IF result.success
  THEN [batch EXCEPT !.status = "completed", !.result = result.result,
                     !.processedAt = Date(clock)]
  ELSE [batch EXCEPT !.status = "error", !.error = result.error]

\* Mutant of AfterBatch: a failed batch ends the loop.
AfterBatch_AbortOnFailure(i, n, result) ==
  IF ~result.success THEN "respond"
  ELSE IF i < n - 1 THEN "delay" ELSE "respond"

\* Mutant of AfterBatch: the delay is applied after the last batch too.
AfterBatch_DelayAfterLast(i, n, result) == IF i < n THEN "delay" ELSE "respond"

\* Mutant of AfterBatch: a failed batch is sent again.
AfterBatch_RetryOnFailure(i, n, result) ==
  IF ~result.success THEN "loop"
  ELSE IF i < n - 1 THEN "delay" ELSE "respond"

\* Mutant of AfterBatch: the loop is left before the last batch.
AfterBatch_LeaveEarly(i, n, result) == IF i < n - 2 THEN "delay" ELSE "respond"

\* Where the loop goes after batch i (0-based) of n: the pacing delay before
\* the next batch, or out of the loop after the last one.
AfterBatch(i, n, result) == IF i < n - 1 THEN "delay" ELSE "respond"

WithStatus(batches, status) == SelectSeq(batches, LAMBDA b : b.status = status)

\* Mutant of RunFailed: any errored batch fails the run.
RunFailed_AnyError(completedBatches, errorBatches) ==
  Len(completedBatches) = 0 \/ Len(errorBatches) > 0

\* if (completedBatches.length === 0)
RunFailed(completedBatches, errorBatches) == Len(completedBatches) = 0

\* Mutant of ErrorText: only the first error reason is reported.
ErrorText_FirstOnly(errorBatches) ==
  <<Str("All batches failed to process. Errors: "), errorBatches[1].error>>

ErrorText(errorBatches) ==
  <<Str("All batches failed to process. Errors: ")>>
    \o Join([k \in DOMAIN errorBatches |-> errorBatches[k].error], Str("; "))

BuildResponse(req, batches, clock) ==
  LET completedBatches == WithStatus(batches, "completed")
      errorBatches == WithStatus(batches, "error")
      finalReport ==
        compileFinalReport(req.sessionId, batches, req.patientId, clock)
      \* compileFinalReport catches what it can throw, so the route's catch
      \* around it never runs and the session always becomes completed.
      sessionStatus == "completed"
  IN IF RunFailed(completedBatches, errorBatches)
     THEN [status |-> 500, success |-> FALSE,
           error |-> ErrorText(errorBatches), message |-> Absent,
           data |-> [sessionId |-> req.sessionId, batchResults |-> batches,
                     finalReport |-> Absent, isComplete |-> FALSE]]
     ELSE [status |-> 200, success |-> TRUE, error |-> Absent,
           message |-> [failed |-> Len(errorBatches), total |-> Len(batches)],
           data |-> [sessionId |-> req.sessionId, batchResults |-> batches,
                     finalReport |-> finalReport,
                     isComplete |-> (sessionStatus = "completed")]]

-----------------------------------------------------------------------------
(* ReportGenerator and the routes of /api/reports                           *)

\* JSON.parse(JSON.stringify(report)): the report as the response of POST
\* /api/diagnose or the body of a request to /api/reports carries it.  A Date
\* arrives as its ISO string.
Transported(report) ==
  [report EXCEPT !.generatedAt = [iso |-> report.generatedAt.date]]

Thrown(error) == [threw |-> TRUE, error |-> error]

\* groups[finding.severity].push(finding): a severity that is no key of the
\* four groups reads undefined (or an inherited member without push) and the
\* call throws a TypeError.
groupFindingsBySeverity(findings) ==
  IF \E f \in DOMAIN findings :
       findings[f].severity \notin
         {Str("critical"), Str("high"), Str("moderate"), Str("low")}
  THEN Thrown("TypeError")
  ELSE [threw |-> FALSE,
        critical |-> SelectSeq(findings, LAMBDA f : f.severity = Str("critical")),
        high |-> SelectSeq(findings, LAMBDA f : f.severity = Str("high")),
        moderate |-> SelectSeq(findings, LAMBDA f : f.severity = Str("moderate")),
        low |-> SelectSeq(findings, LAMBDA f : f.severity = Str("low"))]

\* The clock of the model counts milliseconds.
MsPerSecond == 1000
SecondsPerMinute == 60

\* Math.floor rounds towards minus infinity, as \div does.
formatProcessingTime(milliseconds) ==
  LET seconds == milliseconds \div MsPerSecond
      minutes == seconds \div SecondsPerMinute
      remainingSeconds == seconds % SecondsPerMinute
  IN IF minutes > 0
     THEN [minutes |-> minutes, seconds |-> remainingSeconds]
     ELSE [minutes |-> 0, seconds |-> seconds]

generateReportHeader(report) ==
  [id |-> report.id,
   generated |-> report.generatedAt,
   images |-> report.imageCount,
   processingTime |-> formatProcessingTime(report.processingTime),
   confidence |-> report.confidence,
   patientId |-> report.patientId]

\* The lines of the findings section: per severity that has findings a
\* heading and the numbered findings of the group.
generateFindingsSection(report) ==
  IF Len(report.findings) = 0
  THEN [threw |-> FALSE, lines |-> <<[line |-> "no abnormalities"]>>]
  ELSE LET findingsBySeverity == groupFindingsBySeverity(report.findings)
           section(severity) ==
             LET group == findingsBySeverity[severity]
             IN IF Len(group) > 0
                THEN <<[line |-> "heading", severity |-> severity]>>
                       \o [k \in 1..Len(group) |->
                             [line |-> "finding",
                              number |-> (k - 1) + 1,
                              description |-> group[k].description,
                              location |-> group[k].location,
                              confidence |-> group[k].confidence]]
                ELSE <<>>
       IN IF findingsBySeverity.threw THEN findingsBySeverity
          ELSE [threw |-> FALSE,
                lines |-> section("critical") \o section("high")
                            \o section("moderate") \o section("low")]

generateRecommendationsSection(report) ==
  IF Len(report.recommendations) = 0
  THEN <<[line |-> "no recommendations"]>>
  ELSE [k \in 1..Len(report.recommendations) |->
          [line |-> "recommendation",
           number |-> (k - 1) + 1,
           text |-> report.recommendations[k]]]

formatReportForDisplay(report) ==
  LET findings == generateFindingsSection(report)
  IN IF findings.threw THEN findings
     ELSE [threw |-> FALSE,
           header |-> generateReportHeader(report),
           summary |-> report.summary,
           findings |-> findings.lines,
           recommendations |-> generateRecommendationsSection(report),
           footer |-> [generated |-> report.generatedAt]]

\* report.generatedAt.toISOString(): a Date has the method, the string a
\* transported report holds has not.
generateReportFilename(report) ==
  IF "date" \in DOMAIN report.generatedAt
  THEN [threw |-> FALSE,
        name |-> <<report.patientId, "diagnostic_report",
                   report.generatedAt.date>>]
  ELSE Thrown("TypeError")

\* The bodies of the requests to /api/reports: a report as the dashboard
\* received it, or no report; the export asks for text or for another format.
SaveBodies(report) == {[report |-> r] : r \in {Transported(report), Absent}}

ExportBodies(report) ==
  {[report |-> r, format |-> f] :
     r \in {Transported(report), Absent}, f \in {"text", "pdf"}}

\* POST /api/reports: the report is formatted for the log and returned.
PostReports(body) ==
  IF body.report = Absent
  THEN [status |-> 400, text |-> Absent,
        error |-> Str("Invalid report data - missing required fields")]
  ELSE LET formattedReport == formatReportForDisplay(body.report)
       IN IF formattedReport.threw
          THEN [status |-> 500, text |-> Absent,
                error |-> Str("Internal server error saving report")]
          ELSE [status |-> 200, text |-> formattedReport, error |-> Absent]

\* PUT /api/reports: the text export.
PutReports(body) ==
  IF body.report = Absent
  THEN [status |-> 400, text |-> Absent, filename |-> Absent,
        error |-> Str("Invalid report data for export")]
  ELSE IF body.format = "text"
  THEN LET textContent == formatReportForDisplay(body.report)
           filename == generateReportFilename(body.report)
       IN IF textContent.threw \/ filename.threw
          THEN [status |-> 500, text |-> Absent, filename |-> Absent,
                error |-> Str("Internal server error exporting report")]
          ELSE [status |-> 200, text |-> textContent,
                filename |-> filename.name, error |-> Absent]
  ELSE [status |-> 400, text |-> Absent, filename |-> Absent,
        error |-> Str("Unsupported export format")]

-----------------------------------------------------------------------------
(* State                                                                    *)

VARIABLES
  pc,        \* where the handler is: request, loop, fetch, body, delay,
             \* respond, done
  request,   \* the body of the POST request
  batches,   \* the ImageBatch objects of the run
  i,         \* the loop index (0-based)
  timer,     \* the current call's abort timer is pending
  stalled,   \* the inference service has stopped responding
  respOk,    \* response.ok of the current call, once fetch resolved
  now,       \* the clock
  returned,  \* what each processBatch call returned, in call order
  response,  \* the response of the route, once sent
  calls,     \* the batch numbers of the requests sent to the service, in order
  served,    \* what the service did in each finished exchange, in call order
  delays,    \* the loop index after whose batch each pacing delay elapsed
  call,      \* a function applied on its own: its name, argument and result
  dash,      \* the state of the DiagnosticDashboard page, when it is modelled
  uploader   \* the state of an ImageUploader component, when it is modelled

vars ==
  <<pc, request, batches, i, timer, stalled, respOk, now, returned, response,
    calls, served, delays, call, dash, uploader>>

Init ==
  /\ pc = "request"
  /\ request \in Requests
  /\ batches = <<>>
  /\ i = 0
  /\ timer = FALSE
  /\ stalled = FALSE
  /\ respOk = FALSE
  /\ now = 0
  /\ returned = <<>>
  /\ response = Absent
  /\ calls = <<>>
  /\ served = <<>>
  /\ delays = <<>>
  /\ call = Absent
  /\ dash = Absent
  /\ uploader = Absent

\* The input checks, createBatches and the initialisation of the batches.
Accept ==
  /\ pc = "request"
  /\ IF InputError(request) # Absent
     THEN /\ response' = [status |-> 400, success |-> FALSE,
                          error |-> <<InputError(request)>>,
                          message |-> Absent, data |-> Absent]
          /\ pc' = "done"
          /\ UNCHANGED batches
     ELSE /\ batches' = InitBatches(request.sessionId,
                                    createBatches(request.images.arr, BatchSize))
          /\ pc' = "loop"
          /\ UNCHANGED response
  /\ UNCHANGED <<request, i, timer, stalled, respOk, now, returned>>
  /\ UNCHANGED <<calls, served, delays, call, dash, uploader>>

\* The head of one iteration: the batch becomes processing and processBatch
\* arms its timer and sends the request.
StartBatch ==
  /\ pc = "loop"
  /\ batches' = [batches EXCEPT ![BatchAt(i, Len(batches))].status = "processing"]
  /\ timer' = TRUE
  /\ stalled' = FALSE
  /\ pc' = "fetch"
  /\ calls' = Append(calls, batches[BatchAt(i, Len(batches))].batchNumber)
  /\ UNCHANGED <<request, i, respOk, now, returned, response>>
  /\ UNCHANGED <<served, delays, call, dash, uploader>>

\* processBatch returns `result` to the loop, which settles the batch.
\* processBatch catches everything it throws, so the loop's own catch branch
\* never runs; a timer left pending by a call that already returned can only
\* abort that finished call, so it is dropped here.
Return(result) ==
  /\ returned' = Append(returned, result)
  /\ batches' = [batches EXCEPT ![BatchAt(i, Len(batches))] =
                                   SettleBatch(@, result, now + 1)]
  /\ now' = now + 1
  /\ timer' = FALSE
  /\ stalled' = FALSE
  /\ respOk' = FALSE
  /\ pc' = AfterBatch(i, Len(batches), result)
  /\ UNCHANGED <<request, i, response>>
  /\ UNCHANGED <<calls, delays, call, dash, uploader>>

\* fetch resolves with the response's status line and headers.
FetchResponds ==
  /\ pc = "fetch"
  /\ ~stalled
  /\ \E ok \in BOOLEAN : respOk' = ok
  /\ timer' = TimerAfterHeaders
  /\ pc' = "body"
  /\ UNCHANGED <<request, batches, i, stalled, now, returned, response>>
  /\ UNCHANGED <<calls, served, delays, call, dash, uploader>>

\* fetch rejects (network error).
FetchRejects ==
  /\ pc = "fetch"
  /\ ~stalled
  /\ served' = Append(served, Exchange("network error", FALSE, Absent))
  /\ Return(Failure("fetch failed"))

\* The service stops sending, before the response or inside its body.
ServiceStalls ==
  /\ pc \in {"fetch", "body"}
  /\ ~stalled
  /\ stalled' = TRUE
  /\ UNCHANGED <<pc, request, batches, i, timer, respOk, now, returned, response>>
  /\ UNCHANGED <<calls, served, delays, call, dash, uploader>>

\* The pending timer fires: controller.abort() rejects the pending read.
TimeoutFires ==
  /\ pc \in {"fetch", "body"}
  /\ timer
  /\ served' = Append(served, Exchange("aborted", FALSE, Absent))
  /\ Return(Failure("This operation was aborted"))

\* The body of the response arrives and is read.
BodyArrives ==
  /\ pc = "body"
  /\ ~stalled
  /\ \E body \in (IF respOk THEN Bodies ELSE {NotJsonBody}) :
       /\ served' = Append(served, Exchange("response", respOk, body))
       /\ Return(ReadBody(respOk, body))

\* The pacing delay between two batches elapses.
Delay ==
  /\ pc = "delay"
  /\ i' = i + 1
  /\ now' = now + 1
  /\ pc' = "loop"
  /\ delays' = Append(delays, i)
  /\ UNCHANGED <<request, batches, timer, stalled, respOk, returned, response>>
  /\ UNCHANGED <<calls, served, call, dash, uploader>>

\* After the loop: the response is built and sent.  The clock may have moved
\* on between the last batch's new Date() and those of compileFinalReport.
Respond ==
  /\ pc = "respond"
  /\ \E elapsed \in 0..1 :
       /\ now' = now + elapsed
       /\ response' = BuildResponse(request, batches, now + elapsed)
  /\ pc' = "done"
  /\ UNCHANGED <<request, batches, i, timer, stalled, respOk, returned>>
  /\ UNCHANGED <<calls, served, delays, call, dash, uploader>>

\* The dashboard sends the report it received to POST /api/reports.
SaveReport ==
  /\ pc = "done"
  /\ call = Absent
  /\ response.data # Absent
  /\ response.data.finalReport # Absent
  /\ \E body \in SaveBodies(response.data.finalReport) :
       call' = [fn |-> "POST /api/reports", arg |-> body,
                result |-> PostReports(body)]
  /\ UNCHANGED <<pc, request, batches, i, timer, stalled, respOk, now>>
  /\ UNCHANGED <<returned, response, calls, served, delays, dash, uploader>>

\* The dashboard sends the report it received to PUT /api/reports.
ExportReport ==
  /\ pc = "done"
  /\ call = Absent
  /\ response.data # Absent
  /\ response.data.finalReport # Absent
  /\ \E body \in ExportBodies(response.data.finalReport) :
       call' = [fn |-> "PUT /api/reports", arg |-> body,
                result |-> PutReports(body)]
  /\ UNCHANGED <<pc, request, batches, i, timer, stalled, respOk, now>>
  /\ UNCHANGED <<returned, response, calls, served, delays, dash, uploader>>

Next ==
  \/ Accept
  \/ StartBatch
  \/ FetchResponds
  \/ FetchRejects
  \/ ServiceStalls
  \/ TimeoutFires
  \/ BodyArrives
  \/ Delay
  \/ Respond
  \/ SaveReport
  \/ ExportReport

Spec == Init /\ [][Next]_vars

\* The event loop runs whatever is ready: a continuation whose await settled
\* or a timer that is due.
FairSpec == Spec /\ WF_vars(Next)

-----------------------------------------------------------------------------
(* Vocabulary of the properties                                             *)

Terminal(status) == status \in {"completed", "error"}

InFlight == pc \in {"fetch", "body"}

\* The run got past the input checks and has answered.
RunDone == pc = "done" /\ batches # <<>>

Report == response.data.finalReport

HasReport == response # Absent /\ response.data # Absent /\ Report # Absent

Processing == {k \in DOMAIN batches : batches[k].status = "processing"}

\* The findings of a report that come from the batch at `index` (0-based).
ReportFindingsOf(report, index) ==
  SelectSeq(report.findings, LAMBDA f : f.id[2] = index)

ImageIds(batch) == [k \in 1..Len(batch.images) |-> batch.images[k].id]

\* A reply that is one JSON document whose findings are all objects.
WellFormed(text) ==
  /\ text # Absent
  /\ ~text.prose
  /\ text.doc # Absent
  /\ IsArray(text.doc.findings)
  /\ \A k \in DOMAIN text.doc.findings.arr : text.doc.findings.arr[k] # JNull

\* A reply whose handling fails inside compileFinalReport: text that is not
\* JSON, or a findings list with an entry that cannot be read.
HandlingFails(text) ==
  /\ text # Absent
  /\ \/ text.prose
     \/ text.doc = Absent
     \/ /\ IsArray(text.doc.findings)
        /\ \E k \in DOMAIN text.doc.findings.arr :
             text.doc.findings.arr[k] = JNull

\* A reply that is a payload object inside prose, and the object alone.
Embedded(text) == text # Absent /\ text.prose /\ text.doc # Absent

WithoutProse(text) == IF Embedded(text) THEN Plain(text.doc) ELSE text

\* The error reasons a total-failure text carries, in order.
ReasonsIn(text) == SelectSeq(Tail(text), LAMBDA piece : piece # Str("; "))

SameContribution(a, b) ==
  /\ a.findings = b.findings
  /\ a.recommendations = b.recommendations
  /\ a.confidence = b.confidence

-----------------------------------------------------------------------------
(* Properties                                                               *)

\* C1: every batch starts pending and its status changes only by
\* pending -> processing, processing -> completed and processing -> error;
\* a completed or errored batch never changes status again.
C1_StatusTransitions ==
  [][/\ DOMAIN batches \subseteq DOMAIN batches'
     /\ \A k \in DOMAIN batches' :
          IF k \in DOMAIN batches
          THEN \/ batches'[k].status = batches[k].status
               \/ <<batches[k].status, batches'[k].status>> \in
                    {<<"pending", "processing">>, <<"processing", "completed">>,
                     <<"processing", "error">>}
          ELSE batches'[k].status = "pending"]_vars

\* A run that ended with a completed and an errored batch.
C1_Witness ==
  /\ RunDone
  /\ \E k \in DOMAIN batches : batches[k].status = "completed"
  /\ \E k \in DOMAIN batches : batches[k].status = "error"

\* C2: batch isolation.  When the run has answered, every batch is terminal,
\* every batch whose processBatch call failed is in error, and the report
\* holds, for every completed batch with a well-formed reply, one finding per
\* entry of its findings list, tagged with that batch's images.
C2_BatchIsolation ==
  RunDone =>
    /\ Len(returned) = Len(batches)
    /\ \A k \in DOMAIN batches :
         /\ Terminal(batches[k].status)
         /\ ~returned[k].success => batches[k].status = "error"
         /\ returned[k].success => batches[k].status = "completed"
    /\ (\E k \in DOMAIN batches : batches[k].status = "completed") =>
         /\ HasReport
         /\ \A k \in DOMAIN batches :
              (batches[k].status = "completed" /\ WellFormed(returned[k].result)) =>
                LET entries == returned[k].result.doc.findings.arr
                    got == ReportFindingsOf(Report, k - 1)
                IN /\ Len(got) = Len(entries)
                   /\ \A e \in DOMAIN entries :
                        /\ Truthy(entries[e].description) =>
                             got[e].description = entries[e].description
                        /\ got[e].relatedImages = ImageIds(batches[k])

\* A run of three batches whose middle call failed and whose last batch
\* contributed findings.
C2_Witness ==
  /\ RunDone
  /\ Len(batches) = 3
  /\ ~returned[2].success
  /\ batches[3].status = "completed"
  /\ WellFormed(returned[3].result)
  /\ HasReport
  /\ ReportFindingsOf(Report, 2) # <<>>

\* C3: at most one batch is processing at any moment, and a batch is
\* processing exactly while its processBatch call is in flight.
C3_AtMostOneInFlight ==
  /\ Cardinality(Processing) <= 1
  /\ InFlight <=> Processing # {}
  /\ InFlight => Processing = {i + 1}

\* The second call is in flight after the first batch became terminal.
C3_Witness ==
  /\ InFlight
  /\ i = 1
  /\ Terminal(batches[1].status)
  /\ batches[2].status = "processing"

\* C4: batches are processed in ascending order: a batch has left pending
\* only if every batch before it is terminal.
C4_AscendingOrder ==
  \A k \in DOMAIN batches :
    batches[k].status # "pending" =>
      \A j \in 1..(k - 1) : Terminal(batches[j].status)

\* Batch 2 is processing, batch 1 is terminal and batch 3 still pending.
C4_Witness ==
  /\ Len(batches) = 3
  /\ Terminal(batches[1].status)
  /\ batches[2].status = "processing"
  /\ batches[3].status = "pending"

\* C5: every processBatch call is bounded by its timeout: whenever a call is
\* in flight it eventually returns, also when the service stops responding
\* before the response or inside its body.
C5_EveryCallReturns == InFlight ~> ~InFlight

\* C6: when every batch ended in error the response has success false, no
\* report, isComplete false, and its error text carries the error reason of
\* every batch in batch order.
C6_TotalFailure ==
  (RunDone /\ \A k \in DOMAIN batches : batches[k].status = "error") =>
    /\ response.success = FALSE
    /\ response.data.finalReport = Absent
    /\ response.data.isComplete = FALSE
    /\ ReasonsIn(response.error) =
         [k \in 1..Len(returned) |-> returned[k].error]

\* Three batches failed for three different reasons.
C6_Witness ==
  /\ RunDone
  /\ Len(batches) = 3
  /\ \A k \in DOMAIN batches : batches[k].status = "error"
  /\ Cardinality({returned[k].error : k \in DOMAIN returned}) = 3
  /\ response.success = FALSE

\* C7: a run with a non-empty image list is reported as failed exactly when
\* no batch completed; with at least one completed batch the response has
\* success true and carries a report.
C7_FailedIffNoneCompleted ==
  RunDone =>
    LET someCompleted == \E k \in DOMAIN returned : returned[k].success
    IN /\ response.success = FALSE <=> ~someCompleted
       /\ someCompleted => response.success = TRUE /\ HasReport

\* A run with a completed and an errored batch that answered success.
C7_Witness ==
  /\ RunDone
  /\ \E k \in DOMAIN returned : returned[k].success
  /\ \E k \in DOMAIN returned : ~returned[k].success
  /\ response.success = TRUE
  /\ HasReport

\* C8: isComplete is true only when every batch of the run ended completed.
C8_IsCompleteOnlyWhenAllCompleted ==
  (RunDone /\ response.data.isComplete) =>
    \A k \in DOMAIN batches : batches[k].status = "completed"

\* C9: parse-failure isolation.  A completed batch whose reply cannot be
\* handled contributes nothing to the findings, recommendations and
\* confidence of the report (the report is the one the other batches alone
\* would give) and stays completed.
C9_ParseFailureIsolation ==
  (RunDone /\ HasReport) =>
    LET others ==
          [k \in DOMAIN batches |->
             IF HandlingFails(batches[k].result)
             THEN [batches[k] EXCEPT !.result = Absent]
             ELSE batches[k]]
    IN /\ SameContribution(
            Report,
            compileFinalReport(request.sessionId, others, request.patientId, now))
       /\ \A k \in DOMAIN batches :
            returned[k].success => batches[k].status = "completed"

\* C10: a completed batch whose reply is a payload object inside prose
\* contributes to the report exactly as the object alone would.
C10_EmbeddedPayload ==
  (RunDone /\ HasReport) =>
    LET bare ==
          [k \in DOMAIN batches |->
             [batches[k] EXCEPT !.result = WithoutProse(batches[k].result)]]
    IN SameContribution(
         Report,
         compileFinalReport(request.sessionId, bare, request.patientId, now))

\* A completed batch whose reply was read and whose payload holds a number (0
\* included) as its confidence.
SuppliesConfidence(batch) ==
  /\ batch.status = "completed"
  /\ batch.result # Absent
  /\ ~HandlingFails(batch.result)
  /\ "num" \in DOMAIN batch.result.doc.confidence

RECURSIVE SuppliedConfidences(_)
SuppliedConfidences(bs) ==
  IF bs = <<>> THEN <<>>
  ELSE (IF SuppliesConfidence(Head(bs))
        THEN <<Head(bs).result.doc.confidence.num>> ELSE <<>>)
         \o SuppliedConfidences(Tail(bs))

RECURSIVE SumSeq(_)
SumSeq(xs) == IF xs = <<>> THEN 0 ELSE Head(xs) + SumSeq(Tail(xs))

\* C11: the overall confidence is the rounded mean of the confidences of
\* exactly the completed batches that supplied a number, a supplied 0
\* included, and 0 when none supplied one.
C11_OverallConfidence ==
  (RunDone /\ HasReport) =>
    LET supplied == SuppliedConfidences(batches)
    IN Report.confidence =
         IF supplied = <<>> THEN 0
         ELSE RoundDiv(SumSeq(supplied), Len(supplied))

\* A report without its generation timestamp.
WithoutGeneratedAt(report) ==
  [field \in DOMAIN report \ {"generatedAt"} |-> report[field]]

\* C12: idempotent aggregation.  On every terminal batch sequence two calls
\* of compileFinalReport with the same arguments, the second one at the same
\* time or one tick later, return reports equal in every field but
\* generatedAt.
C12_IdempotentAggregation ==
  RunDone =>
    \A later \in {now, now + 1} :
      WithoutGeneratedAt(
        compileFinalReport(request.sessionId, batches, request.patientId, now))
      = WithoutGeneratedAt(
          compileFinalReport(request.sessionId, batches, request.patientId, later))

-----------------------------------------------------------------------------
(* Functions applied on their own: createBatches on any list and batch      *)
(* size, the batch initialisation of POST /api/diagnose, and the dashboard's *)
(* handleUploadComplete on the response of POST /api/upload.                *)

\* Largest image list and largest batch size given to createBatches alone.
MaxPartImages == 9
MaxPartSize == 6

\* Math.ceil(a / b) for a >= 0, b > 0.
CeilDiv(a, b) == (a + b - 1) \div b

\* POST /api/upload: Math.ceil(uploadedImages.length / 20)
UploadBatchSize == 20

\* Mutant of UploadTotalBatches: the quotient is rounded down.
UploadTotalBatches_Floor(n) == n \div UploadBatchSize

UploadTotalBatches(n) == CeilDiv(n, UploadBatchSize)

\* The data of a successful upload of n files (n >= 1: an upload without
\* files is rejected).
UploadResponse(n) ==
  [sessionId |-> Str("s1"),
   uploadedImages |-> Images(n),
   totalBatches |-> UploadTotalBatches(n)]

\* handleUploadComplete: FileProcessor.createBatches(uploadedImages, 20)
DashboardBatchSize == 20

\* The batches of the session that handleUploadComplete creates.
handleUploadComplete(uploadResponse) ==
  LET imageBatches ==
        createBatches(uploadResponse.uploadedImages, DashboardBatchSize)
  IN [k \in 1..Len(imageBatches) |->
        [id |-> <<"batch", uploadResponse.sessionId, k - 1>>,
         images |-> imageBatches[k],
         status |-> "pending",
         batchNumber |-> (k - 1) + 1,
         totalBatches |-> uploadResponse.totalBatches,
         processedAt |-> Absent,
         result |-> Absent,
         error |-> Absent]]

\* Mutant of flatMapImages: the batches are taken from the last to the first.
RECURSIVE flatMapImages_Reversed(_)
flatMapImages_Reversed(sessionBatches) ==
  IF sessionBatches = <<>> THEN <<>>
  ELSE flatMapImages_Reversed(Tail(sessionBatches)) \o Head(sessionBatches).images

\* session.batches.flatMap(batch => batch.images)
RECURSIVE flatMapImages(_)
flatMapImages(sessionBatches) ==
  IF sessionBatches = <<>> THEN <<>>
  ELSE Head(sessionBatches).images \o flatMapImages(Tail(sessionBatches))

\* ProcessingStatus.startProcessing: the body of the request to POST
\* /api/diagnose, built from the session of the dashboard.
sessionData(session) ==
  [sessionId |-> session.id,
   images |-> Arr(flatMapImages(session.batches)),
   patientId |-> Absent]

\* The session handleUploadComplete creates, and the batches POST
\* /api/diagnose builds from the request startProcessing sends for it.
Repartition(uploadResponse) ==
  LET session == [id |-> uploadResponse.sessionId,
                  batches |-> handleUploadComplete(uploadResponse)]
      body == sessionData(session)
  IN [client |-> session.batches,
      server |-> InitBatches(body.sessionId,
                             createBatches(body.images.arr, BatchSize))]

\* FileProcessor.validateFiles.  Sizes are counted in megabytes.
SUPPORTED_FORMATS ==
  {"image/jpeg", "image/jpg", "image/png", "image/bmp", "image/tiff",
   "image/webp", "image/dicom"}
MAX_FILE_SIZE == 50
MAX_TOTAL_SIZE == 2048
MaxFileCount == 200

\* file.type.toLowerCase(), on the media types of the model.
toLowerCase(type) == IF type = "IMAGE/PNG" THEN "image/png" ELSE type

\* totalSize += file.size over the files from `from` to `to`; the range is
\* halved so that long lists are summed at a small depth.
RECURSIVE TotalSizeIn(_, _, _)
TotalSizeIn(files, from, to) ==
  IF from > to THEN 0
  ELSE IF from = to THEN files[from].size
  ELSE LET mid == (from + to) \div 2
       IN TotalSizeIn(files, from, mid) + TotalSizeIn(files, mid + 1, to)

TotalSize(files) == TotalSizeIn(files, 1, Len(files))

\* The errors files.forEach pushes for the files from `from` to `to`, in
\* order: per file the format error, then the size error.
RECURSIVE FileErrors(_, _, _)
FileErrors(files, from, to) ==
  IF from > to THEN <<>>
  ELSE IF from = to
  THEN (IF toLowerCase(files[from].type) \notin SUPPORTED_FORMATS
        THEN <<[file |-> from, error |-> "Unsupported format"]>> ELSE <<>>)
         \o (IF files[from].size > MAX_FILE_SIZE
             THEN <<[file |-> from, error |-> "Size exceeds 50MB limit"]>>
             ELSE <<>>)
  ELSE LET mid == (from + to) \div 2
       IN FileErrors(files, from, mid) \o FileErrors(files, mid + 1, to)

\* Mutant of validateFiles: the total size is not checked.
validateFiles_NoTotalCheck(files) ==
  IF Len(files) = 0
  THEN [valid |-> FALSE, errors |-> <<[file |-> 0, error |-> "No files selected"]>>]
  ELSE LET errors ==
             (IF Len(files) > MaxFileCount
              THEN <<[file |-> 0, error |-> "Maximum 200 images allowed"]>>
              ELSE <<>>)
               \o FileErrors(files, 1, Len(files))
       IN [valid |-> Len(errors) = 0, errors |-> errors]

validateFiles(files) ==
  IF Len(files) = 0
  THEN [valid |-> FALSE, errors |-> <<[file |-> 0, error |-> "No files selected"]>>]
  ELSE LET errors ==
             (IF Len(files) > MaxFileCount
              THEN <<[file |-> 0, error |-> "Maximum 200 images allowed"]>>
              ELSE <<>>)
               \o FileErrors(files, 1, Len(files))
               \o (IF TotalSize(files) > MAX_TOTAL_SIZE
                   THEN <<[file |-> 0,
                           error |-> "Total upload size exceeds 2GB limit"]>>
                   ELSE <<>>)
       IN [valid |-> Len(errors) = 0, errors |-> errors]

\* POST /api/upload on the files of the form: the answer, with the number of
\* files it converted to base64.  `unreadable` is the position of a file whose
\* file.arrayBuffer() rejects, 0 when every file can be read.
UploadRoute(files, unreadable) ==
  IF Len(files) = 0
  THEN [status |-> 400, success |-> FALSE, converted |-> 0, data |-> Absent,
        error |-> <<[file |-> 0, error |-> "No files provided"]>>]
  ELSE LET validation == validateFiles(files)
       IN IF ~validation.valid
          THEN [status |-> 400, success |-> FALSE, converted |-> 0,
                data |-> Absent, error |-> validation.errors]
          ELSE IF unreadable \in DOMAIN files
          THEN [status |-> 500, success |-> FALSE,
                converted |-> unreadable - 1, data |-> Absent,
                error |-> <<[file |-> unreadable,
                             error |-> "Failed to process file"]>>]
          ELSE [status |-> 200, success |-> TRUE, converted |-> Len(files),
                data |-> UploadResponse(Len(files)), error |-> Absent]

\* Largest number of files given to validateFiles.
MaxFiles == 201

\* The file lists of the model: n image files of one size, the last of them
\* replaced by a file of another kind or left as it is.
FileLists ==
  {[k \in 1..n |-> IF k = n /\ last # "same"
                    THEN CASE last = "document" ->
                                [type |-> "application/pdf", size |-> size]
                           [] last = "large" ->
                                [type |-> "image/png", size |-> MAX_FILE_SIZE + 1]
                           [] last = "upper case" ->
                                [type |-> "IMAGE/PNG", size |-> size]
                    ELSE [type |-> "image/png", size |-> size]] :
     n \in 0..MaxFiles, size \in {1, MAX_FILE_SIZE},
     last \in {"same", "document", "large", "upper case"}}

LibCalls ==
  {[fn |-> "startProcessing", arg |-> UploadResponse(n), result |-> Absent] :
     n \in 1..MaxImages}
    \cup {[fn |-> f, arg |-> files, result |-> Absent] :
            f \in {"validateFiles", "POST /api/upload"}, files \in FileLists}
    \cup
  {[fn |-> "createBatches",
    arg |-> [images |-> Images(n), batchSize |-> b],
    result |-> Absent] : n \in 0..MaxPartImages, b \in 1..MaxPartSize}
    \cup {[fn |-> "handleUploadComplete",
           arg |-> UploadResponse(n),
           result |-> Absent] : n \in 1..MaxImages}
    \cup {[fn |-> "InitBatches",
           arg |-> [sessionId |-> Str("s1"), images |-> Images(n)],
           result |-> Absent] : n \in 1..MaxImages}

runVars ==
  <<pc, request, batches, i, timer, stalled, respOk, now, returned, response,
    calls, served, delays, dash, uploader>>

LibInit ==
  /\ call \in LibCalls
  /\ pc = "lib"
  /\ request = Absent
  /\ batches = <<>>
  /\ i = 0
  /\ timer = FALSE
  /\ stalled = FALSE
  /\ respOk = FALSE
  /\ now = 0
  /\ returned = <<>>
  /\ response = Absent
  /\ calls = <<>>
  /\ served = <<>>
  /\ delays = <<>>
  /\ dash = Absent
  /\ uploader = Absent

ApplyCreateBatches ==
  /\ call.fn = "createBatches"
  /\ call.result = Absent
  /\ call' = [call EXCEPT
                !.result = Arr(createBatches(call.arg.images, call.arg.batchSize))]
  /\ UNCHANGED runVars

\* The batch objects POST /api/diagnose builds from the request's images.
ApplyInitBatches ==
  /\ call.fn = "InitBatches"
  /\ call.result = Absent
  /\ call' = [call EXCEPT
                !.result = Arr(InitBatches(call.arg.sessionId,
                                           createBatches(call.arg.images,
                                                         BatchSize)))]
  /\ UNCHANGED runVars

ApplyHandleUploadComplete ==
  /\ call.fn = "handleUploadComplete"
  /\ call.result = Absent
  /\ call' = [call EXCEPT !.result = Arr(handleUploadComplete(call.arg))]
  /\ UNCHANGED runVars

\* The dashboard's session goes to ProcessingStatus, whose request POST
\* /api/diagnose partitions again.
ApplyStartProcessing ==
  /\ call.fn = "startProcessing"
  /\ call.result = Absent
  /\ call' = [call EXCEPT !.result = Repartition(call.arg)]
  /\ UNCHANGED runVars

ApplyValidateFiles ==
  /\ call.fn = "validateFiles"
  /\ call.result = Absent
  /\ call' = [call EXCEPT !.result = validateFiles(call.arg)]
  /\ UNCHANGED runVars

ApplyUploadRoute ==
  /\ call.fn = "POST /api/upload"
  /\ call.result = Absent
  /\ \E unreadable \in 0..1 :
       call' = [call EXCEPT !.result = UploadRoute(call.arg, unreadable)]
  /\ UNCHANGED runVars

LibNext ==
  \/ ApplyCreateBatches
  \/ ApplyInitBatches
  \/ ApplyHandleUploadComplete
  \/ ApplyStartProcessing
  \/ ApplyValidateFiles
  \/ ApplyUploadRoute

LibSpec == LibInit /\ [][LibNext]_vars

\* The function `fn` has been applied.
Applied(fn) == call # Absent /\ call.fn = fn /\ call.result # Absent

RECURSIVE Flatten(_)
Flatten(seqs) == IF seqs = <<>> THEN <<>> ELSE Head(seqs) \o Flatten(Tail(seqs))

\* C13: for N > 0 images and batch size b > 0 createBatches returns
\* ceil(N/b) batches, batch k (0-indexed) being images[k*b .. min((k+1)*b, N));
\* their concatenation is the original list, no batch is empty, every batch
\* has at most b images and only the last may have fewer.
C13_Partition ==
  (Applied("createBatches") /\ Len(call.arg.images) > 0) =>
    LET images == call.arg.images
        b == call.arg.batchSize
        N == Len(images)
        out == call.result.arr
    IN /\ Len(out) * b >= N
       /\ (Len(out) - 1) * b < N
       /\ \A k \in 0..(Len(out) - 1) :
            /\ out[k + 1] =
                 [j \in 1..(Min((k + 1) * b, N) - k * b) |-> images[k * b + j]]
            /\ Len(out[k + 1]) >= 1
            /\ Len(out[k + 1]) <= b
            /\ k < Len(out) - 1 => Len(out[k + 1]) = b
       /\ Flatten(out) = images

\* 7 images in batches of 3: two full batches and a last one of 1.
C13_Witness ==
  /\ Applied("createBatches")
  /\ Len(call.arg.images) = 7
  /\ call.arg.batchSize = 3
  /\ Len(call.result.arr) = 3
  /\ Len(call.result.arr[3]) = 1

\* C14: the batch at index k has batchNumber k + 1 and totalBatches equal to
\* the number of batches, in the batches built by POST /api/diagnose and in
\* those built by the dashboard from the upload response.
C14_BatchNumbering ==
  (Applied("InitBatches") \/ Applied("handleUploadComplete")) =>
    LET out == call.result.arr
    IN \A k \in 0..(Len(out) - 1) :
         /\ out[k + 1].batchNumber = k + 1
         /\ out[k + 1].totalBatches = Len(out)

\* The dashboard built three batches from an upload of 41 images.
C14_Witness ==
  /\ Applied("handleUploadComplete")
  /\ Len(call.arg.uploadedImages) = 41
  /\ Len(call.result.arr) = 3
  /\ call.result.arr[3].totalBatches = 3

\* C15: a pacing delay follows every batch but the last, whatever the batch's
\* outcome: the d-th delay elapses after batch d is terminal and before batch
\* d + 1 starts processing, there is none after the last batch, and a run of
\* n batches has exactly n - 1 delays when it answers.
C15_PacingDelays ==
  /\ \A d \in DOMAIN delays : delays[d] = d - 1
  /\ batches # <<>> => Len(delays) <= Len(batches) - 1
  /\ pc = "delay" =>
       /\ Len(delays) = i
       /\ i + 2 <= Len(batches)
       /\ Terminal(batches[i + 1].status)
       /\ batches[i + 2].status = "pending"
  /\ \A k \in DOMAIN batches :
       /\ batches[k].status # "pending" => Len(delays) >= k - 1
       /\ (Terminal(batches[k].status) /\ k < Len(batches)) =>
            \/ Len(delays) >= k
            \/ pc = "delay" /\ i = k - 1
  /\ RunDone => Len(delays) = Len(batches) - 1

\* A run of three batches, the first of which failed, answered after two
\* delays.
C15_Witness ==
  /\ RunDone
  /\ Len(batches) = 3
  /\ batches[1].status = "error"
  /\ delays = <<0, 1>>

\* C16: after the loop every completed batch holds the reply text that
\* processBatch returned and a completion timestamp, and every errored batch
\* holds an error reason and no result.
C16_StoredOutcome ==
  RunDone =>
    \A k \in DOMAIN batches :
      /\ batches[k].status = "completed" =>
           /\ batches[k].result # Absent
           /\ batches[k].result = returned[k].result
           /\ batches[k].processedAt # Absent
      /\ batches[k].status = "error" =>
           /\ batches[k].error \notin {Absent, Str("")}
           /\ batches[k].error = returned[k].error
           /\ batches[k].result = Absent

\* C17: processBatch never throws.  Every finished exchange yields a returned
\* value: a failure with a non-empty reason for a network error, an abort, a
\* non-OK response, a body that is not JSON and a response without
\* choices[0].message; a success, carrying the message's content, only for an
\* OK response that contains the message field.
C17_ProcessBatchOutcome ==
  /\ Len(returned) = Len(served)
  /\ \A k \in DOMAIN returned :
       LET s == served[k]
           r == returned[k]
       IN /\ r.success <=>
               (s.event = "response" /\ s.ok /\ s.body.parses /\ s.body.hasMessage)
          /\ r.success => r.result = s.body.content /\ r.error = Absent
          /\ ~r.success => r.error \notin {Absent, Str("")} /\ r.result = Absent

\* One run saw an abort, a non-OK response and a response without the
\* message field, and processBatch returned a failure each time.
C17_Witness ==
  /\ Len(returned) = 3
  /\ served[1].event = "aborted"
  /\ served[2].event = "response" /\ ~served[2].ok
  /\ served[3].event = "response" /\ served[3].ok /\ served[3].body.parses
  /\ ~served[3].body.hasMessage
  /\ \A k \in 1..3 : ~returned[k].success

\* C18: no retries.  The requests sent to the service are one per batch, in
\* batch order, whether the batch succeeds or fails; a run of n batches has
\* made exactly n calls when it answers.
C18_OneCallPerBatch ==
  /\ \A c \in DOMAIN calls : calls[c] = c
  /\ Len(calls) <= Len(batches)
  /\ Len(returned) <= Len(calls)
  /\ Len(calls) <= Len(returned) + 1
  /\ RunDone => Len(calls) = Len(batches)

\* A run of three batches with a failed and a completed batch made three
\* calls.
C18_Witness ==
  /\ RunDone
  /\ Len(batches) = 3
  /\ ~returned[1].success
  /\ returned[2].success
  /\ calls = <<1, 2, 3>>

\* A request without a session identifier, whose images value is not an
\* array, or whose image list is empty.
InvalidRequest ==
  /\ request # Absent
  /\ \/ request.sessionId \in {Absent, Str("")}
     \/ ~IsArray(request.images)
     \/ Len(request.images.arr) = 0

\* C19: an invalid request is rejected before partitioning: no batch is
\* created, no inference call is made, and the answer is an error without
\* data or report.
C19_InvalidRequestRejected ==
  InvalidRequest =>
    /\ pc \in {"request", "done"}
    /\ batches = <<>>
    /\ calls = <<>>
    /\ pc = "request" => response = Absent
    /\ pc = "done" =>
         /\ response.success = FALSE
         /\ response.status = 400
         /\ response.data = Absent
         /\ Len(response.error) >= 1

\* The request with an empty image list has been answered with an error.
C19_Witness ==
  /\ pc = "done"
  /\ request.images = Arr(<<>>)
  /\ response.success = FALSE
  /\ batches = <<>>

\* The recommendations of a batch whose reply the aggregation reads.
RecommendationsOf(batch) ==
  IF /\ batch.status = "completed"
     /\ batch.result # Absent
     /\ ~HandlingFails(batch.result)
     /\ IsArray(batch.result.doc.recommendations)
  THEN batch.result.doc.recommendations.arr
  ELSE <<>>

\* All of them, in batch order.
RECURSIVE AllRecommendations(_)
AllRecommendations(bs) ==
  IF bs = <<>> THEN <<>>
  ELSE RecommendationsOf(Head(bs)) \o AllRecommendations(Tail(bs))

FirstPosition(xs, x) ==
  CHOOSE p \in DOMAIN xs : xs[p] = x /\ \A q \in 1..(p - 1) : xs[q] # x

\* C20: the report's recommendations hold no string twice, hold exactly the
\* distinct recommendations of the completed batches that were read, and are
\* in the order of first occurrence across the batches.
C20_Recommendations ==
  (RunDone /\ HasReport) =>
    LET source == AllRecommendations(batches)
        recs == Report.recommendations
    IN /\ \A a, b \in DOMAIN recs : a # b => recs[a] # recs[b]
       /\ {recs[a] : a \in DOMAIN recs} = {source[p] : p \in DOMAIN source}
       /\ \A a, b \in DOMAIN recs :
            a < b => FirstPosition(source, recs[a]) < FirstPosition(source, recs[b])

\* Two batches both recommended the follow-up CT and the report lists it
\* once, first.
C20_Witness ==
  /\ RunDone
  /\ HasReport
  /\ Len(batches) = 2
  /\ batches[1].result = Plain(P_full)
  /\ batches[2].result = Plain(P_second)
  /\ Report.recommendations = <<Str("Follow-up CT recommended"), Str("Biopsy")>>

-----------------------------------------------------------------------------
(* Report metrics and the fields of a finding                               *)

\* The positions of the batches that hold a completion timestamp.
Stamped == {k \in DOMAIN batches : batches[k].processedAt # Absent}

FirstStamped == CHOOSE k \in Stamped : \A other \in Stamped : k <= other

LastStamped == CHOOSE k \in Stamped : \A other \in Stamped : other <= k

\* C21: for every mix of completed and errored batches with at least one
\* completed batch, the report's processing time is the completion timestamp
\* of the last batch processed minus that of the first batch processed.
C21_ProcessingTime ==
  (RunDone /\ HasReport) =>
    Report.processingTime =
      batches[LastStamped].processedAt.date - batches[FirstStamped].processedAt.date

Severities == {Str("low"), Str("moderate"), Str("high"), Str("critical")}

\* C22: every finding of a report has a severity in {low, moderate, high,
\* critical}, whatever severity the payload supplies, or none.
C22_SeverityInEnumeration ==
  (RunDone /\ HasReport) =>
    \A f \in DOMAIN Report.findings : Report.findings[f].severity \in Severities

\* The payload entry a finding of the report was made from: the ordinal of
\* the finding among those of its batch is its position in the payload.
EntriesOf(k) == batches[k].result.doc.findings.arr

\* C23: a finding's confidence is the integer in 0..100 the payload supplies
\* for it (a supplied 0 stays 0) and is 50 only when the payload omits it; no
\* finding has a confidence outside 0..100.
C23_FindingConfidence ==
  (RunDone /\ HasReport) =>
    /\ \A f \in DOMAIN Report.findings :
         Report.findings[f].confidence.num \in 0..100
    /\ \A k \in DOMAIN batches :
         (batches[k].status = "completed" /\ WellFormed(batches[k].result)) =>
           LET got == ReportFindingsOf(Report, k - 1)
           IN \A e \in DOMAIN got :
                got[e].confidence =
                  IF EntriesOf(k)[e].confidence = Absent THEN Num(50)
                  ELSE EntriesOf(k)[e].confidence

\* The severity sentences of a summary, in the order of the text.
Mentions(summary) == SelectSeq(summary, LAMBDA p : p.sentence = "count")

SeverityRank(severity) ==
  CASE severity = "critical" -> 1
    [] severity = "high" -> 2
    [] severity = "moderate" -> 3
    [] severity = "low" -> 4

FindingCount(report, severity) ==
  Cardinality({f \in DOMAIN report.findings :
                 report.findings[f].severity = Str(severity)})

\* C24: the summary mentions the severity counts in the order critical, high,
\* moderate, low, mentions a severity if and only if the report has findings
\* of it (with their number), and says that no abnormalities were detected if
\* and only if the report has no finding.
C24_SummarySeverities ==
  (RunDone /\ HasReport) =>
    LET mentions == Mentions(Report.summary)
    IN /\ \A a, b \in DOMAIN mentions :
            a < b => SeverityRank(mentions[a].severity)
                       < SeverityRank(mentions[b].severity)
       /\ \A severity \in {"critical", "high", "moderate", "low"} :
            /\ (\E a \in DOMAIN mentions : mentions[a].severity = severity)
                 <=> FindingCount(Report, severity) > 0
            /\ \A a \in DOMAIN mentions :
                 mentions[a].severity = severity =>
                   mentions[a].count = FindingCount(Report, severity)
       /\ (\E p \in DOMAIN Report.summary :
             Report.summary[p].sentence = "no abnormalities")
            <=> Len(Report.findings) = 0

\* A report with critical, high and low findings, whose summary mentions the
\* three in that order.
C24_Witness ==
  /\ RunDone
  /\ HasReport
  /\ FindingCount(Report, "critical") > 0
  /\ FindingCount(Report, "high") > 0
  /\ FindingCount(Report, "low") > 0
  /\ Len(Mentions(Report.summary)) = 3

RECURSIVE ImageTotal(_, _)
ImageTotal(bs, n) == IF n = 0 THEN 0 ELSE Len(bs[n].images) + ImageTotal(bs, n - 1)

\* C25: the report's imageCount is the sum of the image counts of all batches
\* of the run, which is the number of images submitted, for every combination
\* of completed and errored batches.
C25_ImageCount ==
  (RunDone /\ HasReport) =>
    /\ Report.imageCount = ImageTotal(batches, Len(batches))
    /\ Report.imageCount = Len(request.images.arr)

\* A run of 41 images with an errored batch among completed ones.
C25_Witness ==
  /\ RunDone
  /\ HasReport
  /\ \E k \in DOMAIN batches : batches[k].status = "error"
  /\ Report.imageCount = 41

\* The batch a finding of the report was made from.
SourceBatch(finding) == finding.id[2] + 1

\* C26: every finding's relatedImages is exactly the list of the identifiers
\* of all images of the batch whose payload produced the finding, and holds
\* no image of another batch.
C26_RelatedImages ==
  (RunDone /\ HasReport) =>
    \A f \in DOMAIN Report.findings :
      LET finding == Report.findings[f]
      IN /\ SourceBatch(finding) \in DOMAIN batches
         /\ finding.relatedImages = ImageIds(batches[SourceBatch(finding)])
         /\ \A k \in DOMAIN batches \ {SourceBatch(finding)} :
              \A p \in DOMAIN finding.relatedImages :
                \A q \in DOMAIN batches[k].images :
                  finding.relatedImages[p] # batches[k].images[q].id

\* Findings of the first and of the second batch, the second batch holding
\* more than one image.
C26_Witness ==
  /\ RunDone
  /\ HasReport
  /\ Len(batches) >= 2
  /\ Len(batches[2].images) >= 2
  /\ ReportFindingsOf(Report, 0) # <<>>
  /\ ReportFindingsOf(Report, 1) # <<>>

\* The findings list of a completed batch whose reply is parsed and read to
\* its end: the payload's list, or none when the payload has no list.
ParsedFindings(batch) ==
  IF IsArray(batch.result.doc.findings)
  THEN batch.result.doc.findings.arr
  ELSE <<>>

ParsedBatches ==
  {k \in DOMAIN batches :
     /\ batches[k].status = "completed"
     /\ batches[k].result # Absent
     /\ ~HandlingFails(batches[k].result)}

\* C27: the findings of a report are ordered by source batch number and,
\* within one batch, in the order of the payload's findings list; every
\* finding of every successfully parsed completed batch appears exactly once.
C27_FindingOrder ==
  (RunDone /\ HasReport) =>
    /\ \A a, b \in DOMAIN Report.findings :
         a < b => SourceBatch(Report.findings[a]) <= SourceBatch(Report.findings[b])
    /\ \A k \in ParsedBatches :
         LET entries == ParsedFindings(batches[k])
             got == ReportFindingsOf(Report, k - 1)
         IN /\ Len(got) = Len(entries)
            /\ \A e \in DOMAIN entries :
                 got[e].description =
                   OrElse(entries[e].description, Str("No description provided"))

\* Two parsed batches of two findings each: the report holds the four, batch
\* by batch and in payload order.
C27_Witness ==
  /\ RunDone
  /\ HasReport
  /\ Len(batches) >= 2
  /\ batches[1].result = Plain(P_offSchema)
  /\ batches[2].result = Plain(P_full)
  /\ [f \in DOMAIN Report.findings |-> Report.findings[f].description]
       = <<Str("opacity"), Str("lesion"), Str("mass"), Str("nodule")>>

\* C28: the identifiers of the findings of one report are pairwise distinct,
\* also when some batches contribute no finding.
C28_DistinctFindingIds ==
  (RunDone /\ HasReport) =>
    \A a, b \in DOMAIN Report.findings :
      a # b => Report.findings[a].id # Report.findings[b].id

\* Three batches, the second contributing nothing, the others two findings
\* each.
C28_Witness ==
  /\ RunDone
  /\ HasReport
  /\ Len(batches) = 3
  /\ ReportFindingsOf(Report, 1) = <<>>
  /\ Len(ReportFindingsOf(Report, 0)) = 2
  /\ Len(ReportFindingsOf(Report, 2)) = 2

Errored == {k \in DOMAIN batches : batches[k].status = "error"}

\* The batches of the run with every errored batch carrying `text` as its
\* result.
ErroredCarrying(text) ==
  [k \in DOMAIN batches |->
     IF k \in Errored THEN [batches[k] EXCEPT !.result = text] ELSE batches[k]]

\* C29: a batch that ended in error contributes nothing to the report: no
\* finding comes from it, and the findings, recommendations and confidence of
\* the report are the same whatever result text the errored batches carry;
\* the batch still counts in imageCount and in the batch count of the summary.
C29_ErroredContributesNothing ==
  (RunDone /\ HasReport) =>
    /\ \A f \in DOMAIN Report.findings :
         SourceBatch(Report.findings[f]) \notin Errored
    /\ \A text \in Replies \ {Absent} :
         SameContribution(
           Report,
           compileFinalReport(request.sessionId, ErroredCarrying(text),
                              request.patientId, now))
    /\ Report.imageCount = ImageTotal(batches, Len(batches))
    /\ Report.summary[1].images = ImageTotal(batches, Len(batches))
    /\ Report.summary[1].batches = Len(batches)

\* An errored batch between two completed ones that contribute findings.
C29_Witness ==
  /\ RunDone
  /\ HasReport
  /\ Len(batches) = 3
  /\ Errored = {2}
  /\ Report.findings # <<>>
  /\ Report.recommendations # <<>>
  /\ Report.summary[1].batches = 3

\* The calls of the run that failed, by position.
FailedCalls == {k \in DOMAIN returned : ~returned[k].success}

\* C30: whenever at least one batch of a run ended in error, the response
\* lets the caller tell which batches failed: the batch sequence it returns
\* has status error and the error reason for exactly the failed batches, and
\* its error text (total failure) or message (partial failure) speaks of the
\* failures.
C30_FailuresReported ==
  (RunDone /\ FailedCalls # {}) =>
    LET results == response.data.batchResults
    IN /\ Len(results) = Len(returned)
       /\ \A k \in DOMAIN results :
            /\ results[k].batchNumber = k
            /\ IF k \in FailedCalls
               THEN /\ results[k].status = "error"
                    /\ results[k].error = returned[k].error
                    /\ results[k].error # Absent
               ELSE /\ results[k].status = "completed"
                    /\ results[k].error = Absent
       /\ IF response.success
          THEN /\ response.message.failed = Cardinality(FailedCalls)
               /\ response.message.total = Len(results)
          ELSE /\ FailedCalls = DOMAIN results
               /\ ReasonsIn(response.error)
                    = [k \in DOMAIN results |-> results[k].error]

\* A partial failure: the second of three batches failed and the response
\* says so.
C30_Witness ==
  /\ RunDone
  /\ FailedCalls = {2}
  /\ Len(batches) = 3
  /\ response.success
  /\ response.data.batchResults[2].status = "error"
  /\ response.message.failed = 1

-----------------------------------------------------------------------------
(* Aggregation as a step of the run, the formatter and the dashboard        *)

\* C31: compileFinalReport is invoked only after every batch of the run is in
\* a terminal state, and the step that invokes it leaves the batch sequence
\* (status, result, error and timestamp of every batch) unchanged.
C31_AggregationAfterLoop ==
  [][(response = Absent /\ response' # Absent
        /\ response'.data # Absent /\ response'.data.finalReport # Absent) =>
       /\ \A k \in DOMAIN batches : Terminal(batches[k].status)
       /\ batches' = batches
       /\ response'.data.batchResults = batches]_vars

\* A report was compiled from three batches of which one had failed.
C31_Witness ==
  /\ RunDone
  /\ HasReport
  /\ Len(batches) = 3
  /\ \E k \in DOMAIN batches : batches[k].status = "error"
  /\ \A k \in DOMAIN batches : Terminal(batches[k].status)

\* A request to /api/reports that carried a report has been answered.
Answered(fn) ==
  /\ call # Absent
  /\ call.fn = fn
  /\ call.arg.report # Absent

\* The lines a findings section must hold for the findings of one severity:
\* the heading and the findings in report order, numbered from 1.
ExpectedGroup(report, severity) ==
  LET group == SelectSeq(report.findings, LAMBDA f : f.severity = Str(severity))
  IN IF Len(group) = 0 THEN <<>>
     ELSE <<[line |-> "heading", severity |-> severity]>>
            \o [k \in 1..Len(group) |->
                  [line |-> "finding", number |-> k,
                   description |-> group[k].description,
                   location |-> group[k].location,
                   confidence |-> group[k].confidence]]

RECURSIVE GroupLengths(_, _)
GroupLengths(report, severities) ==
  IF severities = <<>> THEN 0
  ELSE Len(SelectSeq(report.findings,
                     LAMBDA f : f.severity = Str(Head(severities))))
         + GroupLengths(report, Tail(severities))

\* C32: the text of a report lists the findings grouped by severity in the
\* order critical, high, moderate, low, every finding of the report exactly
\* once in the group of its severity, followed by the recommendations
\* numbered 1..n in report order.
C32_TextExportGroups ==
  Answered("POST /api/reports") =>
    LET report == call.arg.report
        text == call.result.text
    IN /\ text # Absent
       /\ Len(report.findings) > 0 =>
            /\ text.findings =
                 ExpectedGroup(report, "critical") \o ExpectedGroup(report, "high")
                   \o ExpectedGroup(report, "moderate")
                   \o ExpectedGroup(report, "low")
            /\ GroupLengths(report, <<"critical", "high", "moderate", "low">>)
                 = Len(report.findings)
       /\ Len(report.recommendations) > 0 =>
            text.recommendations =
              [k \in 1..Len(report.recommendations) |->
                 [line |-> "recommendation", number |-> k,
                  text |-> report.recommendations[k]]]

\* C34: the processing time of every report is greater than or equal to 0,
\* for every terminal batch sequence with at least one completed batch, also
\* when the first batch ended in error.
C34_ProcessingTimeNotNegative ==
  (RunDone /\ HasReport) => Report.processingTime >= 0

\* C35: every report compileFinalReport produces from model payloads is
\* accepted by the formatter: formatting it for display and exporting it as
\* text through PUT /api/reports complete without an error.
C35_FormatterAcceptsReports ==
  /\ Answered("POST /api/reports") => call.result.status = 200
  /\ (Answered("PUT /api/reports") /\ call.arg.format = "text") =>
       call.result.status = 200

\* C36: the overall confidence of every report is an integer in 0..100,
\* whatever confidence values the batch payloads supply.
C36_OverallConfidenceRange ==
  (RunDone /\ HasReport) => Report.confidence \in 0..100

\* C37: re-partitioning is a round trip.  Flattening the dashboard's batches
\* in order and partitioning the result again with batch size 20 yields the
\* same batches: the server's batch i has the same id, batchNumber,
\* totalBatches and images as the client's batch i.
C37_RepartitionRoundTrip ==
  Applied("startProcessing") =>
    LET client == call.result.client
        server == call.result.server
    IN /\ Len(server) = Len(client)
       /\ createBatches(Flatten([k \in DOMAIN client |-> client[k].images]), 20)
            = [k \in DOMAIN client |-> client[k].images]
       /\ \A k \in DOMAIN client :
            /\ server[k].id = client[k].id
            /\ server[k].batchNumber = client[k].batchNumber
            /\ server[k].totalBatches = client[k].totalBatches
            /\ server[k].images = client[k].images

\* An upload of 41 images: three batches on both sides.
C37_Witness ==
  /\ Applied("startProcessing")
  /\ Len(call.arg.uploadedImages) = 41
  /\ Len(call.result.client) = 3
  /\ Len(call.result.server) = 3

\* What the claim says about a list of files, in the units of the model.
Acceptable(files) ==
  /\ Len(files) \in 1..200
  /\ \A k \in DOMAIN files :
       /\ toLowerCase(files[k].type) \in SUPPORTED_FORMATS
       /\ files[k].size <= 50
  /\ TotalSize(files) <= 2048

\* C39: validateFiles returns valid = true if and only if its error list is
\* empty, which holds exactly when there are between 1 and 200 files, every
\* file has a supported media type, every file is at most 50MB and the total
\* is at most 2GB; POST /api/upload converts no file and returns no uploaded
\* image when validation fails.
C39_ValidateFiles ==
  /\ Applied("validateFiles") =>
       /\ call.result.valid <=> (call.result.errors = <<>>)
       /\ call.result.valid <=> Acceptable(call.arg)
  /\ (Applied("POST /api/upload") /\ ~Acceptable(call.arg)) =>
       /\ call.result.success = FALSE
       /\ call.result.status = 400
       /\ call.result.converted = 0
       /\ call.result.data = Absent

\* 41 files of 50MB each: every file passes, the total does not, and the
\* upload of the same files converts nothing.
C39_Witness ==
  /\ Applied("POST /api/upload")
  /\ Len(call.arg) = 41
  /\ \A k \in DOMAIN call.arg : call.arg[k] = [type |-> "image/png", size |-> 50]
  /\ call.result.status = 400
  /\ Len(call.result.error) = 1


-----------------------------------------------------------------------------
(* The ImageUploader component on its own                                   *)
(*                                                                          *)
(* `uploader` holds the component's state (selectedFiles, uploading,        *)
(* uploadProgress), its `disabled` prop, where handleUpload stands          *)
(* (idle, fetch: at `await fetch`, json: at `await response.json()`), the   *)
(* uploads whose progress interval is running, and as history the number    *)
(* of uploads started and finished and the callbacks made to the parent.    *)

\* Largest number of uploads started.
MaxUploads == 2

ProgressStep == 10
ProgressCap == 90
ProgressDone == 100

\* What the user picks or drops: one image, one document, or nothing.
Selections ==
  {<<>>, <<[type |-> "image/png", size |-> 1]>>,
   <<[type |-> "application/pdf", size |-> 1]>>}

otherVars ==
  <<pc, request, batches, i, timer, stalled, respOk, now, returned, response,
    calls, served, delays, call>>

OtherInit ==
  /\ pc = "page"
  /\ request = Absent
  /\ batches = <<>>
  /\ i = 0
  /\ timer = FALSE
  /\ stalled = FALSE
  /\ respOk = FALSE
  /\ now = 0
  /\ returned = <<>>
  /\ response = Absent
  /\ calls = <<>>
  /\ served = <<>>
  /\ delays = <<>>
  /\ call = Absent

UploaderInit ==
  /\ OtherInit
  /\ dash = Absent
  /\ uploader = [selectedFiles |-> <<>>, uploading |-> FALSE,
                 uploadProgress |-> 0, disabled |-> FALSE, at |-> "idle",
                 intervals |-> {}, started |-> 0, finished |-> 0,
                 reported |-> <<>>]

\* The `finally` block of handleUpload.
UploadFinally(u) ==
  [u EXCEPT !.uploading = FALSE, !.uploadProgress = 0, !.at = "idle",
            !.finished = @ + 1]

\* handleFileSelection, from the file input or from a drop.
HandleFileSelection ==
  /\ \E files \in Selections :
       uploader' =
         IF Len(files) = 0 THEN uploader
         ELSE IF validateFiles(files).valid
              THEN [uploader EXCEPT !.selectedFiles = files]
              ELSE [uploader EXCEPT !.selectedFiles = <<>>]
  /\ UNCHANGED <<otherVars, dash>>

\* The parent renders the component with another `disabled` prop.
ParentRenders ==
  /\ uploader' = [uploader EXCEPT !.disabled = ~@]
  /\ UNCHANGED <<otherVars, dash>>

\* A click on the upload button: handleUpload up to `await fetch`.
HandleUpload ==
  /\ ~(Len(uploader.selectedFiles) = 0 \/ uploader.uploading \/ uploader.disabled)
  /\ uploader.started < MaxUploads
  /\ uploader' = [uploader EXCEPT !.uploading = TRUE, !.uploadProgress = 0,
                                  !.at = "fetch", !.started = @ + 1,
                                  !.intervals = @ \cup {uploader.started + 1}]
  /\ UNCHANGED <<otherVars, dash>>

\* A progress interval fires.
ProgressTick ==
  /\ uploader.intervals # {}
  /\ uploader' =
       [uploader EXCEPT !.uploadProgress =
          IF @ + ProgressStep < ProgressCap THEN @ + ProgressStep ELSE ProgressCap]
  /\ UNCHANGED <<otherVars, dash>>

\* fetch('/api/upload') settles: it resolves and handleUpload goes on to
\* `await response.json()`, or it rejects and the catch and finally blocks run.
UploadFetchSettles ==
  /\ uploader.at = "fetch"
  /\ \E resolves \in BOOLEAN :
       uploader' =
         IF resolves
         THEN [uploader EXCEPT !.intervals = @ \ {uploader.started},
                               !.uploadProgress = ProgressDone, !.at = "json"]
         ELSE UploadFinally([uploader EXCEPT !.reported = Append(@, "error")])
  /\ UNCHANGED <<otherVars, dash>>

\* response.json() settles: the body reports success, reports a failure, or
\* is not JSON; the rest of handleUpload runs.
UploadBodySettles ==
  /\ uploader.at = "json"
  /\ \E body \in {"success", "failure", "not json"} :
       uploader' =
         IF body = "success"
         THEN UploadFinally([uploader EXCEPT !.reported = Append(@, "complete"),
                                             !.selectedFiles = <<>>])
         ELSE UploadFinally([uploader EXCEPT !.reported = Append(@, "error")])
  /\ UNCHANGED <<otherVars, dash>>

UploaderNext ==
  \/ HandleFileSelection
  \/ ParentRenders
  \/ HandleUpload
  \/ ProgressTick
  \/ UploadFetchSettles
  \/ UploadBodySettles

UploaderSpec == UploaderInit /\ [][UploaderNext]_vars

\* handleUpload has run to its end and no later upload has started.
HandleUploadFinished == uploader.at = "idle" /\ uploader.finished > 0

\* C38: once handleUpload has finished, by success, by a failure the server
\* reported or by a network error, uploading is false, uploadProgress is 0 and
\* stays 0 until the next upload starts, and no progress interval of that
\* upload is running.
C38_UploadLeavesNothingBehind ==
  HandleUploadFinished =>
    /\ ~uploader.uploading
    /\ uploader.uploadProgress = 0
    /\ uploader.intervals = {}


-----------------------------------------------------------------------------
(* The DiagnosticDashboard page with its ProcessingStatus panel             *)
(*                                                                          *)
(* `dash` holds the page's state (currentStage, activeTab, currentSession,  *)
(* uploadError, processingError), the number of uploads the ImageUploader   *)
(* has in flight, the state of the ProcessingStatus panel                   *)
(* (processingStarted, isProcessing) and the body of the panel's            *)
(* /api/diagnose request while it is in flight.                             *)

\* Largest number of uploads in flight at once.
MaxInFlight == 1

Stages == {"upload", "review", "processing", "completed", "error"}

TabNames == {"upload", "review", "processing", "report"}

DashInit ==
  /\ OtherInit
  /\ uploader = Absent
  /\ dash = [currentStage |-> "upload", activeTab |-> "upload",
             currentSession |-> Absent, uploadError |-> FALSE,
             processingError |-> FALSE, uploads |-> 0,
             processingStarted |-> FALSE, isProcessing |-> FALSE,
             diagnose |-> Absent]

\* The Processing tab shows the ProcessingStatus panel.
Mounted(d) ==
  /\ d.activeTab = "processing"
  /\ d.currentSession # Absent
  /\ d.currentStage = "processing"

\* The page renders after a handler changed its state from `old` to `new`:
\* a panel that appears starts with its initial state, a panel that stays
\* runs its effect on the session, a panel that goes loses its state.
Render(old, new) ==
  IF Mounted(new)
  THEN [new EXCEPT
          !.processingStarted = IF Mounted(old) THEN @ ELSE FALSE,
          !.isProcessing = new.currentSession.status = "processing"]
  ELSE [new EXCEPT !.processingStarted = FALSE, !.isProcessing = FALSE]

OnUploadComplete(d, uploadResponse) ==
  [d EXCEPT !.currentSession =
              [id |-> uploadResponse.sessionId,
               totalImages |-> Len(uploadResponse.uploadedImages),
               batches |-> handleUploadComplete(uploadResponse),
               status |-> "uploading",
               finalReport |-> Absent],
            !.currentStage = "review", !.activeTab = "review",
            !.uploadError = FALSE, !.processingError = FALSE]

OnUploadError(d) == [d EXCEPT !.uploadError = TRUE, !.currentStage = "error"]

OnProcessingComplete(d, completedSession) ==
  IF completedSession.status = "completed"
     /\ completedSession.finalReport # Absent
  THEN [d EXCEPT !.currentSession = completedSession,
                 !.currentStage = "completed", !.activeTab = "report"]
  ELSE [d EXCEPT !.currentSession = completedSession,
                 !.currentStage = "error", !.processingError = TRUE]

OnProcessingError(d) ==
  [d EXCEPT !.processingError = TRUE, !.currentStage = "error"]

\* The sessions the panel hands to onProcessingComplete for `session`: the
\* answer says the run is complete or not, and carries a report or none.
CompletedSessions(session) ==
  {[session EXCEPT !.status = IF isComplete THEN "completed" ELSE "error",
                   !.finalReport = report] :
     isComplete \in BOOLEAN, report \in {Absent, [id |-> session.id]}}

\* The trigger of tab `t` is enabled.
TabEnabled(d, t) ==
  CASE t = "upload" -> TRUE
    [] t = "review" -> d.currentSession # Absent
    [] t = "processing" -> d.currentStage = "processing"
    [] t = "report" -> d.currentStage = "completed"

\* The user picks a tab.
SetActiveTab ==
  /\ \E t \in TabNames :
       /\ TabEnabled(dash, t)
       /\ dash' = Render(dash, [dash EXCEPT !.activeTab = t])
  /\ UNCHANGED <<otherVars, uploader>>

\* The ImageUploader of the Upload tab sends an upload.
UploaderSends ==
  /\ dash.activeTab = "upload"
  /\ dash.currentStage # "processing"
  /\ dash.uploads < MaxInFlight
  /\ dash' = [dash EXCEPT !.uploads = @ + 1]
  /\ UNCHANGED <<otherVars, uploader>>

\* "Start AI Analysis" on the Review tab: startProcessing of the page.
StartAnalysis ==
  /\ dash.activeTab = "review"
  /\ dash.currentSession # Absent
  /\ dash.currentStage # "processing"
  /\ dash' = Render(dash,
       [dash EXCEPT !.currentSession.status = "processing",
                    !.currentStage = "processing",
                    !.activeTab = "processing"])
  /\ UNCHANGED <<otherVars, uploader>>

\* One of the buttons that call startNewSession can be pressed.
NewSessionOffered(d) ==
  \/ d.uploadError \/ d.processingError
  \/ /\ d.activeTab = "review"
     /\ d.currentSession # Absent
     /\ d.currentStage # "processing"
  \/ /\ d.activeTab = "report"
     /\ d.currentSession # Absent
     /\ d.currentSession.finalReport # Absent

\* startNewSession, from "Start Over" in the error alert, from "Upload
\* Different Images" on the Review tab or from "Analyze New Images" on the
\* Report tab.
StartNewSession ==
  /\ NewSessionOffered(dash)
  /\ dash' = Render(dash,
       [dash EXCEPT !.currentSession = Absent, !.currentStage = "upload",
                    !.activeTab = "upload", !.uploadError = FALSE,
                    !.processingError = FALSE])
  /\ UNCHANGED <<otherVars, uploader>>

\* The "Start Diagnostic Analysis" button of the panel is shown.
StartButtonShown(d) ==
  /\ Mounted(d)
  /\ ~d.processingStarted
  /\ d.currentSession.status # "completed"

\* The user presses "Start Diagnostic Analysis": a disabled button does
\* nothing, an enabled one runs startProcessing of the panel up to its
\* `await fetch`.
PressStartDiagnosticAnalysis ==
  /\ StartButtonShown(dash)
  /\ dash' = IF dash.isProcessing
             THEN dash
             ELSE [dash EXCEPT !.processingStarted = TRUE,
                               !.diagnose = sessionData(dash.currentSession)]
  /\ UNCHANGED <<otherVars, uploader>>

\* A request of the page is answered and the code waiting for it runs: the
\* ImageUploader calls onUploadComplete or onUploadError, the panel calls
\* onProcessingComplete or onProcessingError.
ResponseArrives ==
  /\ \E of \in {"upload", "diagnose"}, ok \in BOOLEAN :
       /\ IF of = "upload" THEN dash.uploads > 0 ELSE dash.diagnose # Absent
       /\ IF of = "upload"
          THEN \E n \in 1..MaxImages :
                 LET d == [dash EXCEPT !.uploads = @ - 1]
                 IN dash' = Render(dash,
                      IF ok THEN OnUploadComplete(d, UploadResponse(n))
                      ELSE OnUploadError(d))
          ELSE \E completedSession \in CompletedSessions(dash.currentSession) :
                 LET d == [dash EXCEPT !.diagnose = Absent]
                 IN dash' = Render(dash,
                      IF ok THEN OnProcessingComplete(d, completedSession)
                      ELSE OnProcessingError(d))
  /\ UNCHANGED <<otherVars, uploader>>

DashNext ==
  \/ SetActiveTab
  \/ UploaderSends
  \/ StartAnalysis
  \/ StartNewSession
  \/ PressStartDiagnosticAnalysis
  \/ ResponseArrives

DashSpec == DashInit /\ [][DashNext]_vars

\* C33: once an upload is confirmed with "Start AI Analysis", the button that
\* issues the /api/diagnose request can be pressed, so the processing stage is
\* left for the completed or the error stage: whenever the panel shows its
\* "Start Diagnostic Analysis" button the button is enabled.
C33_DiagnoseCanBeIssued ==
  StartButtonShown(dash) => ~dash.isProcessing

====
